---- MODULE Spec2Model ----
(***************************************************************************)
(* Model of ml_service.py: the MLService adapter around the Google Vision  *)
(* client.  Strings are sequences of one-character strings, scores are     *)
(* hundredths (0.5 is 50), and the remote service is the annotation data   *)
(* it holds for the image file plus the point, if any, at which the        *)
(* current call's I/O raises.                                              *)
(***************************************************************************)
EXTENDS Integers, Sequences, FiniteSets

VARIABLES
    client,     \* self.client: "ImageAnnotatorClient" or "None"
    image,      \* what the vision service answers for the file at image_path
    op,         \* the public operation that returned last ("none" before any)
    result,     \* the value that operation returned
    raised,     \* whether that call ended in its except branch
    reads,      \* file reads that call attempted
    calls,      \* remote calls that call attempted
    client0,    \* history: self.client as __init__ left it
    first       \* history: the first call that returned without raising, its value,
                \* and whether a raising call or another operation's call came after it

vars == <<client, image, op, result, raised, reads, calls, client0, first>>

----------------------------------------------------------------------------
(* Strings *)

Str_Image_uploaded_by_user ==
    <<"I","m","a","g","e"," ","u","p","l","o","a","d","e","d"," ","b","y"," ","u","s","e","r">>

Str_Image_containing ==
    <<"I","m","a","g","e"," ","c","o","n","t","a","i","n","i","n","g"," ">>

Str_CommaSpace == <<",", " ">>

Str_DotSpace == <<".", " ">>

Str_Empty == <<>>

UpperCase ==
    <<"A","B","C","D","E","F","G","H","I","J","K","L","M",
      "N","O","P","Q","R","S","T","U","V","W","X","Y","Z">>

LowerCase ==
    <<"a","b","c","d","e","f","g","h","i","j","k","l","m",
      "n","o","p","q","r","s","t","u","v","w","x","y","z">>

\* str.lower() on one character
LowerChar(c) ==
    IF \E i \in 1..Len(UpperCase) : UpperCase[i] = c
    THEN LowerCase[CHOOSE i \in 1..Len(UpperCase) : UpperCase[i] = c]
    ELSE c

\* str.lower()
lower(s) == [i \in 1..Len(s) |-> LowerChar(s[i])]

\* sep.join(parts)
RECURSIVE join(_, _)
join(sep, parts) ==
    IF Len(parts) = 0 THEN Str_Empty
    ELSE IF Len(parts) = 1 THEN parts[1]
    ELSE parts[1] \o sep \o join(sep, Tail(parts))

\* the slice s[:n]
Slice(s, n) == IF Len(s) <= n THEN s ELSE SubSeq(s, 1, n)

\* truthiness of a list
Truthy(s) == Len(s) > 0

----------------------------------------------------------------------------
(* Program constants *)

\* label.score > 0.5, obj.score > 0.5 (hundredths)
Threshold == 50

\* labels[:3], response.label_annotations[:3]
TopLabels == 3

\* dominant_colors.colors[:3]
TopColors == 3

\* max_results of the features requested
LabelMaxResults == 10

ObjectMaxResults == 10

TextMaxResults == 1

LandmarkMaxResults == 5

LogoMaxResults == 5

----------------------------------------------------------------------------
(* The remote service: one response per feature, cut to max_results when the
   request gives one. *)

label_detection(img) == img.label_annotations

label_detection_max(img) == Slice(img.label_annotations, LabelMaxResults)

object_localization(img) == img.localized_object_annotations

landmark_detection(img) == img.landmark_annotations

logo_detection(img) == img.logo_annotations

text_detection(img) == img.text_annotations

annotate_image(img) ==
    [ label_annotations            |-> Slice(img.label_annotations, LabelMaxResults),
      localized_object_annotations |-> Slice(img.localized_object_annotations, ObjectMaxResults),
      text_annotations             |-> Slice(img.text_annotations, TextMaxResults),
      landmark_annotations         |-> Slice(img.landmark_annotations, LandmarkMaxResults),
      logo_annotations             |-> Slice(img.logo_annotations, LogoMaxResults),
      image_properties_annotation  |-> img.image_properties_annotation ]

----------------------------------------------------------------------------
(* generate_alt_text *)

\* the I/O of the try block, in order
AltTextSteps == <<"read", "label_detection", "landmark_detection", "text_detection">>

\* lines 48-63: build the alt text from the three responses
AltTextLabelsAfterLandmark(labels, landmarks) ==
    LET parts1 == IF Truthy(landmarks) THEN <<landmarks[1].description>> ELSE <<>>
        top == Slice(labels, TopLabels)
        top_labels == [i \in 1..Len(top) |-> top[i].description]
        parts2 == IF Truthy(labels) /\ Len(labels) > 0
                  THEN parts1 \o <<Str_Image_containing \o join(Str_CommaSpace, top_labels)>>
                  ELSE parts1
    IN  IF Truthy(parts2) THEN join(Str_DotSpace, parts2) ELSE Str_Image_uploaded_by_user

AltTextAllLabels(labels, landmarks) ==
    LET parts1 == IF Truthy(landmarks) THEN <<landmarks[1].description>> ELSE <<>>
        top_labels == [i \in 1..Len(labels) |-> labels[i].description]
        parts2 == IF Truthy(labels) /\ Len(labels) > 0 /\ ~Truthy(landmarks)
                  THEN parts1 \o <<Str_Image_containing \o join(Str_CommaSpace, top_labels)>>
                  ELSE parts1
    IN  IF Truthy(parts2) THEN join(Str_DotSpace, parts2) ELSE Str_Image_uploaded_by_user

AltTextBuild(labels, landmarks) ==
    LET parts1 == IF Truthy(landmarks) THEN <<landmarks[1].description>> ELSE <<>>
        top == Slice(labels, TopLabels)
        top_labels == [i \in 1..Len(top) |-> top[i].description]
        parts2 == IF Truthy(labels) /\ Len(labels) > 0
                  THEN IF ~Truthy(landmarks)
                       THEN parts1 \o <<Str_Image_containing \o join(Str_CommaSpace, top_labels)>>
                       ELSE parts1
                  ELSE parts1
    IN  IF Truthy(parts2) THEN join(Str_DotSpace, parts2) ELSE Str_Image_uploaded_by_user

\* lines 65-67
AltTextExcept == Str_Image_uploaded_by_user

\* lines 29-67: fail = 0 when nothing raises, else the step that raises
AltTextTry(img, fail) ==
    IF fail # 0 THEN AltTextExcept
    ELSE LET labels == label_detection(img)
             landmarks == landmark_detection(img)
             texts == text_detection(img)
         IN  AltTextBuild(labels, landmarks)

----------------------------------------------------------------------------
(* detect_objects *)

DetectSteps == <<"read", "label_detection", "object_localization",
                 "landmark_detection", "logo_detection">>

\* line 87: if label.score > 0.5
DetectKeepsLabelAtThreshold(label) == label.score >= Threshold

DetectKeepsLabel(label) == label.score > Threshold

\* line 93: if obj.score > 0.5
DetectKeepsObject(obj) == obj.score > Threshold

\* lines 86-88: for label in response.label_annotations
DetectLabels(objects, anns) ==
    LET F[i \in 0..Len(anns)] ==
          IF i = 0 THEN objects
          ELSE IF DetectKeepsLabel(anns[i])
               THEN Append(F[i-1], lower(anns[i].description))
               ELSE F[i-1]
    IN  F[Len(anns)]

\* lines 92-94: for obj in object_response.localized_object_annotations
DetectLocalized(objects, anns) ==
    LET F[i \in 0..Len(anns)] ==
          IF i = 0 THEN objects
          ELSE IF DetectKeepsObject(anns[i])
               THEN Append(F[i-1], lower(anns[i].name))
               ELSE F[i-1]
    IN  F[Len(anns)]

\* lines 98-99: for landmark in landmark_response.landmark_annotations
DetectLandmarks(objects, anns) ==
    LET F[i \in 0..Len(anns)] ==
          IF i = 0 THEN objects ELSE Append(F[i-1], lower(anns[i].description))
    IN  F[Len(anns)]

\* lines 103-104: for logo in logo_response.logo_annotations
DetectLogos(objects, anns) ==
    LET F[i \in 0..Len(anns)] ==
          IF i = 0 THEN objects ELSE Append(F[i-1], lower(anns[i].description))
    IN  F[Len(anns)]

\* lines 82-104: objects after the first n remote calls have returned
RECURSIVE Collected(_, _)
Collected(img, n) ==
    IF n = 0 THEN <<>>
    ELSE LET before == Collected(img, n - 1)
         IN  CASE n = 1 -> DetectLabels(before, label_detection_max(img))
               [] n = 2 -> DetectLocalized(before, object_localization(img))
               [] n = 3 -> DetectLandmarks(before, landmark_detection(img))
               [] OTHER -> DetectLogos(before, logo_detection(img))

\* lines 107-112: the seen / unique_objects loop
RECURSIVE UniqueLoop(_, _, _)
UniqueLoop(objects, seen, unique_objects) ==
    IF Len(objects) = 0 THEN unique_objects
    ELSE IF objects[1] \notin seen
         THEN UniqueLoop(Tail(objects), seen \cup {objects[1]},
                         Append(unique_objects, objects[1]))
         ELSE UniqueLoop(Tail(objects), seen, unique_objects)

UniqueKeepingLast(objects) ==
    LET n == Len(objects)
        keep == {i \in 1..n : \A j \in (i+1)..n : objects[j] # objects[i]}
        F[i \in 0..n] == IF i = 0 THEN <<>>
                         ELSE IF i \in keep THEN Append(F[i-1], objects[i]) ELSE F[i-1]
    IN  F[n]

Unique(objects) == UniqueLoop(objects, {}, <<>>)

\* lines 116-118: the objects collected so far are dropped
DetectExceptPartial(objects) == Unique(objects)

DetectExcept(objects) == <<>>

\* lines 74-118: fail = 0 when nothing raises, else the step that raises
DetectTry(img, fail) ==
    IF fail # 0 THEN DetectExcept(Collected(img, IF fail >= 2 THEN fail - 2 ELSE 0))
    ELSE Unique(Collected(img, 4))

----------------------------------------------------------------------------
(* get_detailed_analysis and its helpers *)

DetailedSteps == <<"read", "annotate_image">>

\* lines 123-128 and 165-170
DegradedRecord ==
    [ alt_text |-> Str_Image_uploaded_by_user,
      objects  |-> <<>>,
      colors   |-> <<>>,
      text     |-> Str_Empty ]

\* lines 172-182
build_alt_text_from_response(response) ==
    LET parts ==
          IF Truthy(response.landmark_annotations)
          THEN <<response.landmark_annotations[1].description>>
          ELSE IF Truthy(response.label_annotations)
          THEN LET top == Slice(response.label_annotations, TopLabels)
                   top_labels == [i \in 1..Len(top) |-> top[i].description]
               IN  <<Str_Image_containing \o join(Str_CommaSpace, top_labels)>>
          ELSE <<>>
    IN  IF Truthy(parts) THEN join(Str_DotSpace, parts) ELSE Str_Image_uploaded_by_user

\* list(dict.fromkeys(objects)): the keys in the order of their first insertion
DictFromKeys(objects) ==
    LET n == Len(objects)
        keys == {i \in 1..n : \A j \in 1..(i-1) : objects[j] # objects[i]}
        F[i \in 0..n] == IF i = 0 THEN <<>>
                         ELSE IF i \in keys THEN Append(F[i-1], objects[i]) ELSE F[i-1]
    IN  F[n]

\* line 189: if label.score > 0.5
ExtractKeepsLabel(label) == label.score > Threshold

\* line 193: if obj.score > 0.5
ExtractKeepsObject(obj) == obj.score > Threshold

\* lines 188-190
ExtractLabels(objects, anns) ==
    LET F[i \in 0..Len(anns)] ==
          IF i = 0 THEN objects
          ELSE IF ExtractKeepsLabel(anns[i])
               THEN Append(F[i-1], lower(anns[i].description))
               ELSE F[i-1]
    IN  F[Len(anns)]

\* lines 192-194
ExtractLocalized(objects, anns) ==
    LET F[i \in 0..Len(anns)] ==
          IF i = 0 THEN objects
          ELSE IF ExtractKeepsObject(anns[i])
               THEN Append(F[i-1], lower(anns[i].name))
               ELSE F[i-1]
    IN  F[Len(anns)]

\* lines 184-196
extract_objects_with_landmarks(response) ==
    DictFromKeys(DetectLandmarks(
        ExtractLocalized(ExtractLabels(<<>>, response.label_annotations),
                         response.localized_object_annotations),
        response.landmark_annotations))

extract_objects_from_response(response) ==
    DictFromKeys(ExtractLocalized(ExtractLabels(<<>>, response.label_annotations),
                                  response.localized_object_annotations))

\* lines 203-208
ColorDict(color) ==
    [ red   |-> color.color.red,
      green |-> color.color.green,
      blue  |-> color.color.blue,
      score |-> color.score ]

\* lines 198-209
extract_all_colors(response) ==
    IF response.image_properties_annotation.set
    THEN LET cs == response.image_properties_annotation.dominant_colors
         IN  [i \in 1..Len(cs) |-> ColorDict(cs[i])]
    ELSE <<>>

extract_colors_from_response(response) ==
    IF response.image_properties_annotation.set
    THEN LET cs == Slice(response.image_properties_annotation.dominant_colors, TopColors)
         IN  [i \in 1..Len(cs) |-> ColorDict(cs[i])]
    ELSE <<>>

\* lines 154-159
DetailedResult(response) ==
    [ alt_text        |-> build_alt_text_from_response(response),
      objects         |-> extract_objects_from_response(response),
      dominant_colors |-> extract_colors_from_response(response),
      text            |-> IF Truthy(response.text_annotations)
                          THEN response.text_annotations[1].description
                          ELSE Str_Empty ]

\* lines 130-170
DetailedTry(img, fail) ==
    IF fail # 0 THEN DegradedRecord ELSE DetailedResult(annotate_image(img))

----------------------------------------------------------------------------
(* Inputs: the annotation data the service may hold for an image *)

MaxAnnotations == 4

MaxLabels == 4

MaxLandmarks == 1

MaxTexts == 1

MaxColors == 4

Cat == <<"C","a","t">>

cat == <<"c","a","t">>

Dog == <<"D","o","g">>

LabelAnns ==
    { [description |-> Cat, score |-> 51],
      [description |-> Dog, score |-> 50],
      [description |-> Dog, score |-> 51] }

ObjectAnns ==
    { [name |-> cat, score |-> 51],
      [name |-> Dog, score |-> 50] }

LandmarkAnns ==
    { [description |-> Cat, score |-> 50],
      [description |-> Dog, score |-> 51] }

LogoAnns ==
    { [description |-> cat, score |-> 50],
      [description |-> Dog, score |-> 51] }

TextAnns == { [description |-> Cat], [description |-> Dog] }

ColorInfos ==
    { [color |-> [red |-> 255, green |-> 0, blue |-> 0], score |-> 60, pixel_fraction |-> 10],
      [color |-> [red |-> 0, green |-> 128, blue |-> 255], score |-> 30, pixel_fraction |-> 20],
      [color |-> [red |-> 0, green |-> 0, blue |-> 0], score |-> 10, pixel_fraction |-> 70] }

SeqsOfLen(S, k) == [1..k -> S]

SeqsUpTo(S, n) == UNION { SeqsOfLen(S, k) : k \in 0..n }

NoProperties == [set |-> FALSE, dominant_colors |-> <<>>]

Properties(cs) == [set |-> TRUE, dominant_colors |-> cs]

ImageOf(labels, objects, landmarks, logos, texts, props) ==
    [ label_annotations            |-> labels,
      localized_object_annotations |-> objects,
      landmark_annotations         |-> landmarks,
      logo_annotations             |-> logos,
      text_annotations             |-> texts,
      image_properties_annotation  |-> props ]

\* at most MaxAnnotations labels, objects, landmarks and logos in all
TagImages ==
    UNION { { ImageOf(l, o, m, g, <<>>, NoProperties) :
                l \in SeqsOfLen(LabelAnns, k[1]), o \in SeqsOfLen(ObjectAnns, k[2]),
                m \in SeqsOfLen(LandmarkAnns, k[3]), g \in SeqsOfLen(LogoAnns, k[4]) } :
            k \in { q \in [1..4 -> 0..MaxAnnotations] :
                       q[1] + q[2] + q[3] + q[4] <= MaxAnnotations } }

\* labels and landmarks
AltImages ==
    { ImageOf(l, <<>>, m, <<>>, <<>>, NoProperties) :
        l \in SeqsUpTo(LabelAnns, MaxLabels), m \in SeqsUpTo(LandmarkAnns, MaxLandmarks) }

\* dominant colors, with or without a text
ColorImages ==
    { ImageOf(<<>>, <<>>, <<>>, <<>>, t, p) :
        t \in SeqsUpTo(TextAnns, MaxTexts),
        p \in {NoProperties} \cup { Properties(cs) : cs \in SeqsUpTo(ColorInfos, MaxColors) } }

Images == TagImages \cup AltImages \cup ColorImages

----------------------------------------------------------------------------
(* The adapter *)

\* lines 10-22: __init__ leaves a client or None
Init ==
    /\ client \in {"ImageAnnotatorClient", "None"}
    /\ client0 = client
    /\ image \in Images
    /\ op = "none"
    /\ result = <<>>
    /\ raised = FALSE
    /\ reads = 0
    /\ calls = 0
    /\ first = [op |-> "none", value |-> <<>>, between |-> FALSE]

\* lines 26, 71, 122: if not self.client
HandleAbsentInverted(c) == c # "None"

HandleAbsent(c) == c = "None"

\* no public operation assigns self.client
ClientDroppedOnError(c, didRaise) == IF didRaise THEN "None" ELSE c

ClientAfter(c, didRaise) == c

\* a call of operation o that attempted the first n of its I/O steps returns value
Return(o, value, n, didRaise) ==
    /\ op' = o
    /\ result' = value
    /\ raised' = didRaise
    /\ reads' = IF n >= 1 THEN 1 ELSE 0
    /\ calls' = IF n >= 1 THEN n - 1 ELSE 0
    /\ client' = ClientAfter(client, didRaise)
    /\ first' = IF first.op = "none"
                THEN IF didRaise THEN first
                     ELSE [op |-> o, value |-> value, between |-> FALSE]
                ELSE IF didRaise \/ o # first.op
                     THEN [first EXCEPT !.between = TRUE]
                     ELSE first
    /\ UNCHANGED <<image, client0>>

Attempted(steps, fail) == IF fail = 0 THEN Len(steps) ELSE fail

\* lines 24-67
generate_alt_text ==
    IF HandleAbsent(client)
    THEN Return("generate_alt_text", Str_Image_uploaded_by_user, 0, FALSE)
    ELSE \E fail \in 0..Len(AltTextSteps) :
            Return("generate_alt_text", AltTextTry(image, fail),
                   Attempted(AltTextSteps, fail), fail # 0)

\* lines 69-118
detect_objects ==
    IF HandleAbsent(client)
    THEN Return("detect_objects", <<>>, 0, FALSE)
    ELSE \E fail \in 0..Len(DetectSteps) :
            Return("detect_objects", DetectTry(image, fail),
                   Attempted(DetectSteps, fail), fail # 0)

\* lines 120-170
get_detailed_analysis ==
    IF HandleAbsent(client)
    THEN Return("get_detailed_analysis", DegradedRecord, 0, FALSE)
    ELSE \E fail \in 0..Len(DetailedSteps) :
            Return("get_detailed_analysis", DetailedTry(image, fail),
                   Attempted(DetailedSteps, fail), fail # 0)

Next == generate_alt_text \/ detect_objects \/ get_detailed_analysis

Spec == Init /\ [][Next]_vars

----------------------------------------------------------------------------
(* Properties *)

Present == client # "None"

Succeeded(o) == op = o /\ Present /\ ~raised

Min(a, b) == IF a <= b THEN a ELSE b

Elems(s) == { s[i] : i \in 1..Len(s) }

FirstIndex(s, x) == CHOOSE i \in 1..Len(s) : s[i] = x /\ \A j \in 1..(i-1) : s[j] # x

\* r lists every element of s once, in the order of first occurrence in s
IsStableDedupOf(r, s) ==
    /\ Elems(r) = Elems(s)
    /\ \A i, j \in 1..Len(r) : i < j =>
          /\ r[i] # r[j]
          /\ FirstIndex(s, r[i]) < FirstIndex(s, r[j])

IsPrefixOf(r, s) == Len(r) <= Len(s) /\ \A i \in 1..Len(r) : r[i] = s[i]

\* the lowercased descriptions of the annotations whose score is above one half
AboveHalf(anns) == SelectSeq(anns, LAMBDA a : a.score > 50)

LowerDescriptions(anns) == [i \in 1..Len(anns) |-> lower(anns[i].description)]

LowerNames(anns) == [i \in 1..Len(anns) |-> lower(anns[i].name)]

KeptLabelsThenObjects(img) ==
    LowerDescriptions(AboveHalf(img.label_annotations))
      \o LowerNames(AboveHalf(img.localized_object_annotations))

LandmarksThenLogos(img) ==
    LowerDescriptions(img.landmark_annotations) \o LowerDescriptions(img.logo_annotations)

NoAnnotations(img) ==
    /\ img.label_annotations = <<>>
    /\ img.localized_object_annotations = <<>>
    /\ img.landmark_annotations = <<>>
    /\ img.logo_annotations = <<>>
    /\ img.text_annotations = <<>>
    /\ ~img.image_properties_annotation.set

FixedDegradedRecord ==
    [ alt_text |-> Str_Image_uploaded_by_user, objects |-> <<>>, colors |-> <<>>, text |-> <<>> ]

\* the fallback value of operation o
FallbackOf(o) ==
    CASE o = "generate_alt_text" -> Str_Image_uploaded_by_user
      [] o = "detect_objects" -> <<>>
      [] o = "get_detailed_analysis" -> FixedDegradedRecord

\* C1: with the client handle absent, generate_alt_text returns "Image uploaded by
\* user", detect_objects the empty list and get_detailed_analysis the degraded
\* record, and the call attempts no file read and no remote call.
C1_AbsentHandleDegrades ==
    (client = "None" /\ op # "none") =>
        /\ reads = 0
        /\ calls = 0
        /\ ~raised
        /\ result = FallbackOf(op)

C1_Witness ==
    /\ client = "None"
    /\ op = "get_detailed_analysis"
    /\ Len(image.label_annotations) > 0
    /\ Len(image.landmark_annotations) > 0
    /\ first.between

\* C2: with a present handle, a call whose file read or k-th remote call raises
\* returns exactly the operation's fallback value, never a partial result.
C2_FailureGivesFallback ==
    (Present /\ raised) => result = FallbackOf(op)

C2_Witness ==
    /\ Present
    /\ raised
    /\ op = "detect_objects"
    /\ reads = 1
    /\ calls = 3
    /\ \E i \in 1..Len(image.label_annotations) : image.label_annotations[i].score > 50

\* C3: each operation returns the same value when the service answers with no
\* annotations at all, when a call raises, and when the handle is absent; for
\* get_detailed_analysis the same record with the same field names.
C3_SameValueInAllThreeSituations ==
    (op # "none" /\ (NoAnnotations(image) \/ raised \/ client = "None"))
        => result = FallbackOf(op)

\* C4: a successful detect_objects returns the order-preserving deduplication of
\* kept lowercased labels, kept lowercased objects, all lowercased landmarks and
\* all lowercased logos, concatenated in that order.
C4_DetectObjectsIsStableDedup ==
    Succeeded("detect_objects") =>
        IsStableDedupOf(result, KeptLabelsThenObjects(image) \o LandmarksThenLogos(image))

C4_Witness ==
    /\ Succeeded("detect_objects")
    /\ Len(KeptLabelsThenObjects(image) \o LandmarksThenLogos(image)) = 4
    /\ Len(result) = 2
    /\ \E i \in 1..Len(image.logo_annotations) :
          /\ image.logo_annotations[i].description # lower(image.logo_annotations[i].description)
          /\ lower(image.logo_annotations[i].description) = result[1]

\* C5: a label or localized object is kept if and only if its score is strictly
\* above 0.5, in detect_objects and in the objects of get_detailed_analysis;
\* landmarks and logos are kept in detect_objects whatever their score.
C5_ThresholdIsStrict ==
    LET kept == { lower(a.description) :
                    a \in { b \in Elems(image.label_annotations) : b.score > 50 } }
                \cup { lower(a.name) :
                    a \in { b \in Elems(image.localized_object_annotations) : b.score > 50 } }
        unconditional == { lower(a.description) :
                    a \in Elems(image.landmark_annotations) \cup Elems(image.logo_annotations) }
    IN  /\ Succeeded("detect_objects") => Elems(result) = kept \cup unconditional
        /\ Succeeded("get_detailed_analysis") => Elems(result.objects) = kept

C5_Witness ==
    /\ Succeeded("detect_objects")
    /\ \E i \in 1..Len(image.label_annotations) :
          /\ image.label_annotations[i].score = 50
          /\ lower(image.label_annotations[i].description) \notin Elems(result)
    /\ \E i \in 1..Len(image.label_annotations) : image.label_annotations[i].score = 51
    /\ \E i \in 1..Len(image.landmark_annotations) : image.landmark_annotations[i].score = 50

\* C6: when the service returns a landmark, the alt text of generate_alt_text and
\* the alt_text of get_detailed_analysis are exactly the first landmark's
\* description, whatever the labels.
C6_LandmarkTakesPrecedence ==
    Len(image.landmark_annotations) > 0 =>
        /\ Succeeded("generate_alt_text")
              => result = image.landmark_annotations[1].description
        /\ Succeeded("get_detailed_analysis")
              => result.alt_text = image.landmark_annotations[1].description

C6_Witness ==
    /\ Succeeded("generate_alt_text")
    /\ Len(image.landmark_annotations) > 0
    /\ Len(image.label_annotations) >= 3

LabelSentence(labels) ==
    LET d(i) == labels[i].description
    IN  CASE Len(labels) = 1 -> Str_Image_containing \o d(1)
          [] Len(labels) = 2 -> Str_Image_containing \o d(1) \o <<",", " ">> \o d(2)
          [] OTHER -> Str_Image_containing \o d(1) \o <<",", " ">> \o d(2)
                        \o <<",", " ">> \o d(3)

\* C7: with no landmark and n >= 1 labels the alt text is "Image containing "
\* followed by the first min(3, n) label descriptions, in the service's order,
\* joined with ", "; with neither landmark nor label it is "Image uploaded by user".
C7_LabelFallback ==
    LET expected == IF Len(image.label_annotations) > 0
                    THEN LabelSentence(image.label_annotations)
                    ELSE Str_Image_uploaded_by_user
    IN  Len(image.landmark_annotations) = 0 =>
            /\ Succeeded("generate_alt_text") => result = expected
            /\ Succeeded("get_detailed_analysis") => result.alt_text = expected

C7_Witness ==
    /\ Succeeded("generate_alt_text")
    /\ Len(image.landmark_annotations) = 0
    /\ Len(image.label_annotations) = 4
    /\ image.label_annotations[1].score < image.label_annotations[2].score
    /\ image.label_annotations[2].description = image.label_annotations[3].description
    /\ image.label_annotations[4].description # image.label_annotations[3].description

\* C8: a successful get_detailed_analysis returns as dominant_colors the first
\* min(3, n) of the service's n dominant colors, in order, with red, green, blue
\* and score unchanged; without image properties it returns the empty sequence.
C8_FirstThreeColors ==
    Succeeded("get_detailed_analysis") =>
        LET props == image.image_properties_annotation
            cs == props.dominant_colors
            r == result.dominant_colors
        IN  IF props.set
            THEN /\ Len(r) = Min(3, Len(cs))
                 /\ \A i \in 1..Len(r) :
                       r[i] = [ red |-> cs[i].color.red, green |-> cs[i].color.green,
                                blue |-> cs[i].color.blue, score |-> cs[i].score ]
            ELSE r = <<>>

C8_Witness ==
    /\ Succeeded("get_detailed_analysis")
    /\ Len(image.image_properties_annotation.dominant_colors) = 4
    /\ Len(result.dominant_colors) = 3
    /\ result.dominant_colors[1].score < result.dominant_colors[2].score

\* C9: no operation changes the client handle, and a call that does not raise
\* returns what the first such call of the same operation returned, whatever
\* calls came in between.
C9_NoHiddenState ==
    /\ client = client0
    /\ (op = first.op /\ ~raised) => result = first.value

C9_Witness ==
    /\ Succeeded("detect_objects")
    /\ first.op = "detect_objects"
    /\ first.between
    /\ Len(result) > 0

\* C10: the objects of a successful get_detailed_analysis are the order-preserving
\* deduplication of kept labels then kept objects, whatever the landmarks and
\* logos; they are a prefix of what detect_objects returns for the same
\* annotations, and the rest of that list is the landmark and logo descriptions
\* not already present.
C10_DetailedObjectsPrefixOfDetect ==
    Succeeded("get_detailed_analysis") =>
        LET objs == result.objects
            detect == DetectTry(image, 0)
        IN  /\ IsStableDedupOf(objs, KeptLabelsThenObjects(image))
            /\ IsPrefixOf(objs, detect)
            /\ { detect[i] : i \in (Len(objs)+1)..Len(detect) }
                  = Elems(LandmarksThenLogos(image)) \ Elems(objs)

C10_Witness ==
    /\ Succeeded("get_detailed_analysis")
    /\ Len(result.objects) > 0
    /\ Elems(LandmarksThenLogos(image)) \ Elems(result.objects) # {}
    /\ Elems(LandmarksThenLogos(image)) \cap Elems(result.objects) # {}

====
